---- MODULE Spec2Model ----
(***************************************************************************)
(* tempo-s3-shard: an S3 proxy that presents one virtual bucket and        *)
(* spreads objects over several backend buckets with a consistent-hash     *)
(* ring (package hash), a client manager (package client) and an HTTP      *)
(* server (package server).                                                *)
(*                                                                         *)
(* Strings are sequences of one-character strings, so that splitting and   *)
(* concatenation are computed, not assumed.                                *)
(***************************************************************************)
EXTENDS Integers, Sequences, FiniteSets, TLC

VARIABLES
    phase,        \* position of main: "boot", "serving" or "fatal"
    buckets,      \* ConsistentHash.buckets / Config.Buckets
    replicas,     \* ConsistentHash.replicas
    keys,         \* ConsistentHash.keys: the ring points
    hashMap,      \* ConsistentHash.hashMap: ring point -> bucket
    sha,          \* the digests computed so far: string -> uint32 (truncated)
    lastKey,      \* argument of the last extractHashKey call
    lastHashKey,  \* routing key returned by that call
    routed,       \* the GetBucket calls so far: key -> [hashKey, hash, bucket]
    allBuckets,   \* result of the last GetAllBuckets call
    existing,     \* backend: the buckets that exist
    store,        \* backend: the objects, as <<bucket, key>> pairs
    last,         \* the last single-object request handled and its backend calls
    listPc,       \* handleListObjects: "idle", "loop" (between two buckets) or "done"
    listReq,      \* handleListObjects: the query parameters and maxKeys
    listIdx,      \* handleListObjects: index of the next bucket of the fan-out loop
    allObjects,   \* handleListObjects: the entries appended so far
    yielded,      \* what each ListObjects call of this request put on its channel
    errorLog,     \* the buckets named by the "Error listing objects" log lines
    listResp,     \* the response handleListObjects wrote
    config,       \* Config.Buckets: the bucket list of the configuration file
    previous,     \* the router of the process that ran before a restart
    ensureLog,    \* the backend calls EnsureBucketsExist made
    cancelledAt,  \* handleListObjects: value of listIdx when the client gave up, 0 if it has not
    dispatched,   \* handleRequest: the last two requests and what each was dispatched to
    hashInput,    \* addBucket: the last two replica strings handed to hash
    metrics       \* package metrics: the counters, label values -> count

routerVars == <<phase, buckets, replicas, keys, hashMap, sha>>
lookupVars == <<lastKey, lastHashKey, routed, allBuckets>>
backendVars == <<existing, store>>
listVars == <<listPc, listReq, listIdx, allObjects, yielded, errorLog, listResp>>
observedVars == <<dispatched, hashInput, metrics>>
processVars == <<config, previous, ensureLog, cancelledAt, observedVars>>
vars == <<routerVars, lookupVars, backendVars, last, listVars, processVars>>

----------------------------------------------------------------------------
(* Bounds of the model *)

\* truncated digests range over 0..HashMax (uint32 in the program)
HashMax == 2
\* configurations list at most MaxBuckets buckets
MaxBuckets == 2
\* object keys of the key-policy specification have at most MaxKeyLen characters
MaxKeyLen == 4
HashSpace == 0..HashMax

\* the Go empty string
EmptyString == <<>>

Slash == "/"

BucketNames == { <<"a">>, <<"b">> }

RECURSIVE SeqsUpTo(_, _)
SeqsUpTo(S, n) ==
    IF n = 0 THEN { <<>> }
    ELSE LET shorter == SeqsUpTo(S, n - 1)
         IN  shorter \cup { Append(s, x) : s \in { t \in shorter : Len(t) = n - 1 }, x \in S }

\* bucket lists a configuration file can hold (duplicates and the empty list included)
Configs == SeqsUpTo(BucketNames, MaxBuckets)

\* replica counts handed to NewConsistentHash directly (non-positive ones included)
ReplicaChoices == { 0 - 1, 0, 1, 2 }

KeyAlphabet == { "t", "x", Slash }

\* every string over the key alphabet up to the length bound
AllKeys == SeqsUpTo(KeyAlphabet, MaxKeyLen)

\* object keys routed through the ring
RingKeys == { <<"t", "/", "x", "/", "f">>, <<"t", "/", "x", "/", "g">>, <<"s">> }

----------------------------------------------------------------------------
(* Strings *)

Range(s) == { s[i] : i \in DOMAIN s }

IsPrefix(p, s) == Len(p) <= Len(s) /\ SubSeq(s, 1, Len(p)) = p

\* positions of the separator in s
SlashPositions(s) == { i \in DOMAIN s : s[i] = Slash }

Min(S) == CHOOSE x \in S : \A y \in S : x <= y

\* the sequence has no duplicate
DuplicateFree(bs) == \A i \in DOMAIN bs : \A j \in DOMAIN bs : bs[i] = bs[j] => i = j

\* strings.SplitN(s, "/", n) for n >= 0: at most n substrings, the last one
\* the unsplit remainder
RECURSIVE SplitN(_, _)
SplitN(s, n) ==
    IF n = 0 THEN <<>>
    ELSE IF n = 1 \/ SlashPositions(s) = {} THEN <<s>>
    ELSE LET i == Min(SlashPositions(s))
         IN  <<SubSeq(s, 1, i - 1)>> \o SplitN(SubSeq(s, i + 1, Len(s)), n - 1)

Digit(d) == CASE d = 0 -> "0" [] d = 1 -> "1" [] d = 2 -> "2" [] d = 3 -> "3"
              [] d = 4 -> "4" [] d = 5 -> "5" [] d = 6 -> "6" [] d = 7 -> "7"
              [] d = 8 -> "8" [] d = 9 -> "9"

\* strconv.Itoa for i >= 0
RECURSIVE Itoa(_)
Itoa(i) == IF i < 10 THEN <<Digit(i)>> ELSE Append(Itoa(i \div 10), Digit(i % 10))

----------------------------------------------------------------------------
(* package hash *)

\* the split limit of extractHashKey
SplitLimit == 3

extractHashKeyWhole(key) == key

extractHashKeyThree(key) ==
    LET parts == SplitN(key, 4)
    IN  IF Len(parts) >= 3 THEN parts[1] \o <<Slash>> \o parts[2] \o <<Slash>> \o parts[3]
        ELSE key

\* ConsistentHash.extractHashKey
extractHashKey(key) ==
    LET parts == SplitN(key, SplitLimit)
    IN  IF Len(parts) >= 2 THEN parts[1] \o <<Slash>> \o parts[2] ELSE key

\* the string hashed for replica i of a bucket: bucket + strconv.Itoa(i)
ReplicaInput(bucket, i) == bucket \o Itoa(i)

\* the strings addBucket hashes for a bucket list and a replica count
ReplicaInputs(bs, r) == { ReplicaInput(bs[n], i) : n \in DOMAIN bs, i \in 0..(r - 1) }

\* ConsistentHash.hash: the first four bytes of the SHA-256 digest, big-endian.
\* The digest is an arbitrary fixed function of the string: digests(s) is the
\* set of values the model may fix for s, one value once s has been hashed.
digests(s) == IF s \in DOMAIN sha THEN { sha[s] } ELSE HashSpace

\* the digest functions over a set of strings that agree with the digests fixed so far
DigestFunctions(S) == { f \in [S -> HashSpace] : \A s \in S \cap DOMAIN sha : f[s] = sha[s] }

\* the digests fixed so far, extended by f
Remember(f) == [s \in DOMAIN sha \cup DOMAIN f |-> IF s \in DOMAIN f THEN f[s] ELSE sha[s]]

\* insert x into the ascending sequence s
RECURSIVE Insert(_, _)
Insert(s, x) ==
    IF s = <<>> THEN <<x>>
    ELSE IF x < Head(s) THEN <<x>> \o s
    ELSE <<Head(s)>> \o Insert(Tail(s), x)

\* sort.Slice(ch.keys, less) with less(i, j) = keys[i] < keys[j]
RECURSIVE SortKeys(_)
SortKeys(s) == IF s = <<>> THEN <<>> ELSE Insert(SortKeys(Tail(s)), Head(s))

\* a Go map read: the zero value when the key is absent
MapGet(m, k) == IF k \in DOMAIN m THEN m[k] ELSE EmptyString

\* a Go map write
MapPut(m, k, v) == [x \in DOMAIN m \cup {k} |-> IF x = k THEN v ELSE m[x]]

RECURSIVE addReplicasDistinct(_, _, _, _, _)
addReplicasDistinct(ch, bucket, i, r, f) ==
    IF i >= r THEN ch
    ELSE LET key == f[ReplicaInput(bucket, i)]
         IN  IF key \in DOMAIN ch.hashMap THEN addReplicasDistinct(ch, bucket, i + 1, r, f)
             ELSE addReplicasDistinct([keys |-> Append(ch.keys, key),
                                       hashMap |-> MapPut(ch.hashMap, key, bucket)],
                                      bucket, i + 1, r, f)

RECURSIVE addReplicasFirstWins(_, _, _, _, _)
addReplicasFirstWins(ch, bucket, i, r, f) ==
    IF i >= r THEN ch
    ELSE LET key == f[ReplicaInput(bucket, i)]
         IN  addReplicasFirstWins([keys |-> Append(ch.keys, key),
                                   hashMap |-> IF key \in DOMAIN ch.hashMap THEN ch.hashMap
                                               ELSE MapPut(ch.hashMap, key, bucket)],
                                  bucket, i + 1, r, f)

\* the loop of addBucket: replicas i..r-1 of one bucket, digests taken from f
RECURSIVE addReplicas(_, _, _, _, _)
addReplicas(ch, bucket, i, r, f) ==
    IF i >= r THEN ch
    ELSE LET key == f[ReplicaInput(bucket, i)]
         IN  addReplicas([keys |-> Append(ch.keys, key),
                          hashMap |-> MapPut(ch.hashMap, key, bucket)],
                         bucket, i + 1, r, f)

addBucketUnsorted(ch, bucket, r, f) == addReplicas(ch, bucket, 0, r, f)

\* ConsistentHash.addBucket: append the replica points, then sort the ring
addBucket(ch, bucket, r, f) ==
    LET added == addReplicas(ch, bucket, 0, r, f)
    IN  [keys |-> SortKeys(added.keys), hashMap |-> added.hashMap]

\* the loop of NewConsistentHash over buckets n..Len(bs)
RECURSIVE addBuckets(_, _, _, _, _)
addBuckets(ch, bs, n, r, f) ==
    IF n > Len(bs) THEN ch
    ELSE addBuckets(addBucket(ch, bs[n], r, f), bs, n + 1, r, f)

\* the ring NewConsistentHash builds
BuildRing(r, bs, f) == addBuckets([keys |-> <<>>, hashMap |-> <<>>], bs, 1, r, f)

\* sort.Search(n, f) with f(i) = ks[i] >= hash, on 0-based indices: binary
\* search between i and j
RECURSIVE sortSearch(_, _, _, _)
sortSearch(ks, hash, i, j) ==
    IF i >= j THEN i
    ELSE LET h == (i + j) \div 2
         IN  IF ~(ks[h + 1] >= hash) THEN sortSearch(ks, hash, h + 1, j)
             ELSE sortSearch(ks, hash, i, h)

resolveModulo(ks, hm, hash) == MapGet(hm, ks[(hash % Len(ks)) + 1])

resolveNoWrap(ks, hm, hash) ==
    LET idx == sortSearch(ks, hash, 0, Len(ks))
    IN  IF idx = Len(ks) THEN EmptyString ELSE MapGet(hm, ks[idx + 1])

\* GetBucket after the hash is computed: search, wrap around, read the map
resolve(ks, hm, hash) ==
    LET found == sortSearch(ks, hash, 0, Len(ks))
        idx == IF found = Len(ks) THEN 0 ELSE found
    IN  MapGet(hm, ks[idx + 1])

getBucketRoundRobin(key, h) ==
    IF Len(keys) = 0 THEN EmptyString
    ELSE buckets[(Cardinality(DOMAIN routed) % Len(buckets)) + 1]

\* ConsistentHash.GetBucket with the digest h of the routing key
getBucket(key, h) ==
    IF Len(keys) = 0 THEN EmptyString ELSE resolve(keys, hashMap, h)

getAllBucketsRingOrder == [i \in DOMAIN keys |-> MapGet(hashMap, keys[i])]

\* ConsistentHash.GetAllBuckets, which S3ClientManager.GetAllBuckets returns unchanged
getAllBuckets == buckets

----------------------------------------------------------------------------
(* Initial state: the process before main has run, the backend empty *)

\* no list request received yet
NoQuery == [bucketName |-> EmptyString, prefix |-> EmptyString, delimiter |-> EmptyString,
            maxKeysStr |-> EmptyString, marker |-> EmptyString, maxKeys |-> 0]

\* no list response written yet
NoResponse == [status |-> 0]

\* no request handled yet
NoRequest == [op |-> "none", bucketName |-> EmptyString, key |-> EmptyString, calls |-> <<>>,
              status |-> 0, held |-> {}]

\* no earlier process
NoRouter == [buckets |-> <<>>, replicas |-> 0, keys |-> <<>>, hashMap |-> <<>>, routed |-> <<>>,
             restarted |-> FALSE]

Init ==
    /\ phase = "boot"
    /\ config = <<>>
    /\ previous = NoRouter
    /\ ensureLog = <<>>
    /\ cancelledAt = 0
    /\ dispatched = <<>>
    /\ hashInput = <<>>
    /\ metrics = <<>>
    /\ buckets = <<>>
    /\ replicas = 0
    /\ keys = <<>>
    /\ hashMap = <<>>
    /\ sha = <<>>
    /\ lastKey = EmptyString
    /\ lastHashKey = EmptyString
    /\ routed = <<>>
    /\ allBuckets = <<>>
    /\ existing = {}
    /\ store = {}
    /\ last = NoRequest
    /\ listPc = "idle"
    /\ listReq = NoQuery
    /\ listIdx = 0
    /\ allObjects = <<>>
    /\ yielded = <<>>
    /\ errorLog = <<>>
    /\ listResp = NoResponse

----------------------------------------------------------------------------
(* Key policy: extractHashKey applied to any key *)

ExtractHashKey(key) ==
    /\ lastKey' = key
    /\ lastHashKey' = extractHashKey(key)
    /\ UNCHANGED <<routerVars, routed, allBuckets, backendVars, last, listVars, processVars>>

NextKey == \E key \in AllKeys : ExtractHashKey(key)

SpecKey == Init /\ [][NextKey]_vars

----------------------------------------------------------------------------
(* The ring: NewConsistentHash, GetBucket, GetAllBuckets called directly *)

\* hash.NewConsistentHash(replicas, buckets)
NewConsistentHash(r, bs) ==
    /\ phase = "boot"
    /\ \E f \in DigestFunctions(ReplicaInputs(bs, r)) :
          LET ch == BuildRing(r, bs, f)
          IN  /\ keys' = ch.keys
              /\ hashMap' = ch.hashMap
              /\ sha' = Remember(f)
    /\ replicas' = r
    /\ buckets' = bs
    /\ config' = bs
    /\ phase' = "built"
    /\ UNCHANGED <<lookupVars, backendVars, last, listVars, previous, ensureLog, cancelledAt,
                   observedVars>>

GetBucketCaching(key) ==
    /\ phase = "built"
    /\ Len(keys) > 0
    /\ LET hashKey == extractHashKey(key)
       IN  \E h \in digests(hashKey) :
             /\ routed' = MapPut(routed, key, [hashKey |-> hashKey, hash |-> h,
                                               bucket |-> getBucket(key, h)])
             /\ hashMap' = MapPut(hashMap, h, getBucket(key, h))
             /\ sha' = Remember(hashKey :> h)
    /\ UNCHANGED <<phase, buckets, replicas, keys, lastKey, lastHashKey, allBuckets,
                   backendVars, last, listVars, processVars>>

\* ConsistentHash.GetBucket(key); the call and what it computed are recorded
GetBucket(key) ==
    /\ phase = "built"
    /\ IF Len(keys) = 0
       THEN /\ routed' = MapPut(routed, key, [hashKey |-> EmptyString, hash |-> 0 - 1,
                                              bucket |-> EmptyString])
            /\ sha' = sha
       ELSE LET hashKey == extractHashKey(key)
            IN  \E h \in digests(hashKey) :
                  /\ routed' = MapPut(routed, key, [hashKey |-> hashKey, hash |-> h,
                                                    bucket |-> getBucket(key, h)])
                  /\ sha' = Remember(hashKey :> h)
    /\ UNCHANGED <<phase, buckets, replicas, keys, hashMap, lastKey, lastHashKey, allBuckets,
                   backendVars, last, listVars, processVars>>

\* ConsistentHash.GetAllBuckets()
GetAllBuckets ==
    /\ phase = "built"
    /\ allBuckets' = getAllBuckets
    /\ UNCHANGED <<routerVars, lastKey, lastHashKey, routed, backendVars, last, listVars,
                   processVars>>

NextRing ==
    \/ \E r \in ReplicaChoices, bs \in Configs : NewConsistentHash(r, bs)
    \/ \E key \in RingKeys : GetBucket(key)
    \/ GetAllBuckets

SpecRing == Init /\ [][NextRing]_vars

----------------------------------------------------------------------------
(* The ring rebuilt: the process is restarted and NewConsistentHash runs again, *)
(* on the same bucket list or on the list without one bucket                   *)

\* the third bucket of the rebuilt configurations
ThirdBucket == <<"c">>

\* replica counts and bucket lists of the first process
RebuildInputs ==
    { [replicas |-> 1, buckets |-> << <<"a">>, <<"b">>, ThirdBucket >>],
      [replicas |-> 1, buckets |-> << ThirdBucket, <<"b">>, <<"a">> >>],
      [replicas |-> 2, buckets |-> << <<"b">>, <<"a">> >>] }

\* object keys routed before and after the restart
RebuildKeys == { <<"t", "/", "x", "/", "f">>, <<"s">> }

\* a bucket list with every occurrence of bucket r removed
Without(bs, r) == SelectSeq(bs, LAMBDA b : b # r)

\* a new process: hash.NewConsistentHash(replicas, bs) builds its ring from
\* scratch; the router of the old process is kept for comparison. SHA-256 is
\* the same function in both processes.
Reconfigure(bs, restarted) ==
    /\ phase = "built"
    /\ previous = NoRouter
    /\ \E f \in DigestFunctions(ReplicaInputs(bs, replicas)) :
          LET ch == BuildRing(replicas, bs, f)
          IN  /\ keys' = ch.keys
              /\ hashMap' = ch.hashMap
              /\ sha' = Remember(f)
    /\ buckets' = bs
    /\ config' = bs
    /\ previous' = [buckets |-> buckets, replicas |-> replicas, keys |-> keys,
                    hashMap |-> hashMap, routed |-> routed, restarted |-> restarted]
    /\ routed' = <<>>
    /\ UNCHANGED <<phase, replicas, lastKey, lastHashKey, allBuckets, backendVars, last,
                   listVars, ensureLog, cancelledAt, observedVars>>

\* the process is restarted with the same configuration
Restart == Reconfigure(buckets, TRUE)

\* the process is restarted with bucket r taken out of the configuration
RemoveBucket(r) == r \in Range(buckets) /\ Reconfigure(Without(buckets, r), FALSE)

NextRebuild ==
    \/ \E c \in RebuildInputs : NewConsistentHash(c.replicas, c.buckets)
    \/ \E key \in RebuildKeys : GetBucket(key)
    \/ Restart
    \/ \E r \in BucketNames \cup { ThirdBucket } : RemoveBucket(r)

SpecRebuild == Init /\ [][NextRebuild]_vars

----------------------------------------------------------------------------
(* package client and package server: startup and the single-object handlers *)

\* the name of the virtual bucket
ProxyBucket == <<"p", "r", "o", "x", "y", "-", "b", "u", "c", "k", "e", "t">>

\* bucket lists of the configuration files the server is started with
ServerConfigs == { <<>>, << <<"a">> >>, << <<"a">>, <<"b">> >>, << <<"b">>, <<"a">> >>,
                   << <<"a">>, <<"a">> >> }

\* NewS3ClientManager builds the ring with 100 replicas per bucket; the server
\* specifications build it with the smallest positive replica count, one
\* ring point per bucket
ServerReplicas == Min({ r \in ReplicaChoices : r > 0 })

\* object keys of the requests sent to the server
ServerKeys == { <<"t", "/", "x", "/", "f">>, <<"s">> }

\* S3ClientManager.EnsureBucketsExist: the buckets that exist after the first
\* n configured buckets were checked (and created when missing); the loop
\* returns at the first backend error
ensureBucketsExist(ex, bs, n) == ex \cup { bs[i] : i \in 1..n }

\* the call of EnsureBucketsExist that returns an error when the loop stops
\* after n buckets: none when every bucket was handled, else the check of the
\* next bucket or, when that bucket is missing, its creation
ensureFailures(ex, bs, n) ==
    IF n = Len(bs) THEN { "none" }
    ELSE { "BucketExists" } \cup
         (IF bs[n + 1] \in ensureBucketsExist(ex, bs, n) THEN {} ELSE { "MakeBucket" })

\* a backend call of EnsureBucketsExist and its outcome
EnsureCall(op, bucket, exists, err) == [op |-> op, bucket |-> bucket, exists |-> exists, err |-> err]

ensureBucketAlwaysCreate(ex, bs, i) ==
    <<EnsureCall("BucketExists", bs[i], bs[i] \in ensureBucketsExist(ex, bs, i - 1), FALSE),
      EnsureCall("MakeBucket", bs[i], FALSE, FALSE)>>

\* the calls EnsureBucketsExist makes on bucket i: BucketExists, then
\* MakeBucket when the bucket is reported missing
ensureBucket(ex, bs, i) ==
    LET exists == bs[i] \in ensureBucketsExist(ex, bs, i - 1)
    IN  <<EnsureCall("BucketExists", bs[i], exists, FALSE)>> \o
        (IF exists THEN <<>> ELSE <<EnsureCall("MakeBucket", bs[i], FALSE, FALSE)>>)

\* the calls EnsureBucketsExist makes when its loop handles the first n
\* buckets and then, if n < Len(bs), returns on the error of the failing call
RECURSIVE ensureCalls(_, _, _, _)
ensureCalls(ex, bs, n, failing) ==
    IF failing = "BucketExists"
    THEN Append(ensureCalls(ex, bs, n, "none"), EnsureCall("BucketExists", bs[n + 1], FALSE, TRUE))
    ELSE IF failing = "MakeBucket"
    THEN ensureCalls(ex, bs, n, "none") \o
         <<EnsureCall("BucketExists", bs[n + 1], FALSE, FALSE),
           EnsureCall("MakeBucket", bs[n + 1], FALSE, TRUE)>>
    ELSE IF n = 0 THEN <<>>
    ELSE ensureCalls(ex, bs, n - 1, "none") \o ensureBucket(ex, bs, n)

\* main: LoadConfig, NewTempoS3ShardServer (NewS3ClientManager,
\* NewConsistentHash, EnsureBucketsExist, whose error is only logged) and
\* http.ListenAndServe. NewS3ClientManager fails only on the endpoint or the
\* minio client, ListenAndServe only on the listener.
StartServer(bs) ==
    /\ phase = "boot"
    /\ \/ /\ phase' = "fatal"
          /\ UNCHANGED <<buckets, replicas, keys, hashMap, sha, existing, ensureLog>>
       \/ \E f \in DigestFunctions(ReplicaInputs(bs, ServerReplicas)) :
          \E n \in 0..Len(bs), listening \in BOOLEAN :
          \E failing \in ensureFailures(existing, bs, n) :
             LET ch == BuildRing(ServerReplicas, bs, f)
             IN  /\ keys' = ch.keys
                 /\ hashMap' = ch.hashMap
                 /\ sha' = Remember(f)
                 /\ replicas' = ServerReplicas
                 /\ buckets' = bs
                 /\ existing' = ensureBucketsExist(existing, bs, n)
                 /\ ensureLog' = ensureCalls(existing, bs, n, failing)
                 /\ phase' = IF listening THEN "serving" ELSE "fatal"
    /\ config' = bs
    /\ UNCHANGED <<lookupVars, store, last, listVars, previous, cancelledAt, observedVars>>

getBucketForKeyFirst(key, h) == IF Len(buckets) = 0 THEN EmptyString ELSE buckets[1]

\* S3ClientManager.GetBucketForKey with the digest h of the routing key
getBucketForKey(key, h) == getBucket(key, h)

\* the digests GetBucket may compute for a key: none is computed on an empty ring
routeDigests(key) == IF Len(keys) = 0 THEN { 0 - 1 } ELSE digests(extractHashKey(key))

\* the digests fixed so far, after GetBucket computed digest h for a key
routeRemember(key, h) == IF Len(keys) = 0 THEN sha ELSE Remember(extractHashKey(key) :> h)

\* a backend call of a handler; err tells whether the call returned an error
Call(op, bucket, key) == [op |-> op, bucket |-> bucket, key |-> key, err |-> FALSE]

\* the call, returning an error
CallError(call) == [call EXCEPT !.err = TRUE]

\* the buckets that hold an object of this key
Holders(key) == { b \in { o[1] : o \in store } : <<b, key>> \in store }

\* the record of a handled request
Handled(op, bucketName, key, calls, status) ==
    [op |-> op, bucketName |-> bucketName, key |-> key, calls |-> calls, status |-> status,
     held |-> Holders(key)]

\* the minio client rejects an empty bucket name before any request is sent;
\* the backend rejects a bucket that does not exist
bucketUsable(b) == b # EmptyString /\ b \in existing

\* TempoS3ShardServer.handlePutObject
HandlePutObject(bucketName, objectKey) ==
    /\ phase = "serving"
    /\ \E h \in routeDigests(objectKey), hasLength \in BOOLEAN, ok \in BOOLEAN :
         LET targetBucket == getBucketForKey(objectKey, h)
             put == Call("PutObject", targetBucket, objectKey)
         IN  /\ sha' = routeRemember(objectKey, h)
             /\ IF ~hasLength
                THEN /\ last' = Handled("put", bucketName, objectKey, <<>>, 400)
                     /\ store' = store
                ELSE IF ok /\ bucketUsable(targetBucket)
                THEN /\ last' = Handled("put", bucketName, objectKey, <<put>>, 200)
                     /\ store' = store \cup { <<targetBucket, objectKey>> }
                ELSE /\ last' = Handled("put", bucketName, objectKey, <<CallError(put)>>, 500)
                     /\ store' = store
    /\ UNCHANGED <<phase, buckets, replicas, keys, hashMap, lookupVars, existing, listVars,
                   processVars>>

\* TempoS3ShardServer.handleGetObject: GetObject, then Stat on the object
HandleGetObject(bucketName, objectKey) ==
    /\ phase = "serving"
    /\ \E h \in routeDigests(objectKey), ok \in BOOLEAN :
         LET targetBucket == getBucketForKey(objectKey, h)
             get == Call("GetObject", targetBucket, objectKey)
             stat == Call("Stat", targetBucket, objectKey)
         IN  /\ sha' = routeRemember(objectKey, h)
             /\ IF targetBucket = EmptyString
                THEN last' = Handled("get", bucketName, objectKey, <<CallError(get)>>, 404)
                ELSE IF ok /\ bucketUsable(targetBucket)
                          /\ <<targetBucket, objectKey>> \in store
                THEN last' = Handled("get", bucketName, objectKey, <<get, stat>>, 200)
                ELSE last' = Handled("get", bucketName, objectKey, <<get, CallError(stat)>>, 404)
    /\ UNCHANGED <<phase, buckets, replicas, keys, hashMap, lookupVars, backendVars, listVars,
                   processVars>>

HandleDeleteObjectSilent(bucketName, objectKey) ==
    /\ phase = "serving"
    /\ \E h \in routeDigests(objectKey), ok \in BOOLEAN :
         LET targetBucket == getBucketForKey(objectKey, h)
             remove == Call("RemoveObject", targetBucket, objectKey)
         IN  /\ sha' = routeRemember(objectKey, h)
             /\ IF ok /\ bucketUsable(targetBucket)
                THEN /\ last' = Handled("delete", bucketName, objectKey, <<remove>>, 204)
                     /\ store' = store \ { <<targetBucket, objectKey>> }
                ELSE /\ last' = Handled("delete", bucketName, objectKey, <<CallError(remove)>>, 204)
                     /\ store' = store
    /\ UNCHANGED <<phase, buckets, replicas, keys, hashMap, lookupVars, existing, listVars,
                   processVars>>

\* TempoS3ShardServer.handleDeleteObject
HandleDeleteObject(bucketName, objectKey) ==
    /\ phase = "serving"
    /\ \E h \in routeDigests(objectKey), ok \in BOOLEAN :
         LET targetBucket == getBucketForKey(objectKey, h)
             remove == Call("RemoveObject", targetBucket, objectKey)
         IN  /\ sha' = routeRemember(objectKey, h)
             /\ IF ok /\ bucketUsable(targetBucket)
                THEN /\ last' = Handled("delete", bucketName, objectKey, <<remove>>, 204)
                     /\ store' = store \ { <<targetBucket, objectKey>> }
                ELSE /\ last' = Handled("delete", bucketName, objectKey, <<CallError(remove)>>, 500)
                     /\ store' = store
    /\ UNCHANGED <<phase, buckets, replicas, keys, hashMap, lookupVars, existing, listVars,
                   processVars>>

\* TempoS3ShardServer.handleHeadObject
HandleHeadObject(bucketName, objectKey) ==
    /\ phase = "serving"
    /\ \E h \in routeDigests(objectKey), ok \in BOOLEAN :
         LET targetBucket == getBucketForKey(objectKey, h)
             stat == Call("StatObject", targetBucket, objectKey)
         IN  /\ sha' = routeRemember(objectKey, h)
             /\ IF ok /\ bucketUsable(targetBucket)
                      /\ <<targetBucket, objectKey>> \in store
                THEN last' = Handled("head", bucketName, objectKey, <<stat>>, 200)
                ELSE last' = Handled("head", bucketName, objectKey, <<CallError(stat)>>, 404)
    /\ UNCHANGED <<phase, buckets, replicas, keys, hashMap, lookupVars, backendVars, listVars,
                   processVars>>

\* TempoS3ShardServer.handleGetObjectTagging
HandleGetObjectTagging(bucketName, objectKey) ==
    /\ phase = "serving"
    /\ \E h \in routeDigests(objectKey), ok \in BOOLEAN :
         LET targetBucket == getBucketForKey(objectKey, h)
             getTags == Call("GetObjectTagging", targetBucket, objectKey)
         IN  /\ sha' = routeRemember(objectKey, h)
             /\ IF ok /\ bucketUsable(targetBucket)
                      /\ <<targetBucket, objectKey>> \in store
                THEN last' = Handled("get-tagging", bucketName, objectKey, <<getTags>>, 200)
                ELSE last' = Handled("get-tagging", bucketName, objectKey,
                                     <<CallError(getTags)>>, 404)
    /\ UNCHANGED <<phase, buckets, replicas, keys, hashMap, lookupVars, backendVars, listVars,
                   processVars>>

\* TempoS3ShardServer.handlePutObjectTagging: the body is read and parsed
\* into tags before the backend is called
HandlePutObjectTagging(bucketName, objectKey) ==
    /\ phase = "serving"
    /\ \E h \in routeDigests(objectKey), bodyOk \in BOOLEAN, ok \in BOOLEAN :
         LET targetBucket == getBucketForKey(objectKey, h)
             putTags == Call("PutObjectTagging", targetBucket, objectKey)
         IN  /\ sha' = routeRemember(objectKey, h)
             /\ IF ~bodyOk
                THEN last' = Handled("put-tagging", bucketName, objectKey, <<>>, 400)
                ELSE IF ok /\ bucketUsable(targetBucket)
                          /\ <<targetBucket, objectKey>> \in store
                THEN last' = Handled("put-tagging", bucketName, objectKey, <<putTags>>, 200)
                ELSE last' = Handled("put-tagging", bucketName, objectKey,
                                     <<CallError(putTags)>>, 500)
    /\ UNCHANGED <<phase, buckets, replicas, keys, hashMap, lookupVars, backendVars, listVars,
                   processVars>>

\* bucket lists of the configuration files of the single-object specification
ObjectConfigs == { bs \in ServerConfigs : bs \in { <<>>, << <<"a">> >>, << <<"a">>, <<"b">> >> } }

NextServer ==
    \/ \E bs \in ObjectConfigs : StartServer(bs)
    \/ \E key \in ServerKeys : HandlePutObject(ProxyBucket, key)
    \/ \E key \in ServerKeys : HandleGetObject(ProxyBucket, key)
    \/ \E key \in ServerKeys : HandleDeleteObject(ProxyBucket, key)
    \/ \E key \in ServerKeys : HandleHeadObject(ProxyBucket, key)
    \/ \E key \in ServerKeys : HandleGetObjectTagging(ProxyBucket, key)
    \/ \E key \in ServerKeys : HandlePutObjectTagging(ProxyBucket, key)

SpecServer == Init /\ [][NextServer]_vars

----------------------------------------------------------------------------
(* package server: handleListObjects, one step per bucket of the fan-out loop *)

\* the default of maxKeys
DefaultMaxKeys == 1000

\* keys of the objects the backend buckets may hold
ListKeys == { <<"p", "/", "1">>, <<"p", "/", "2">>, <<"q">> }

\* the query strings of the list requests: prefix, delimiter, max-keys, marker
ListQueries ==
    { [prefix |-> EmptyString, delimiter |-> EmptyString, maxKeysStr |-> m, marker |-> EmptyString] :
        m \in { EmptyString, <<"1">>, <<"x">>, <<"0">>, <<"-", "1">> } }
    \cup
    { [prefix |-> <<"p", "/">>, delimiter |-> EmptyString, maxKeysStr |-> <<"1">>, marker |-> <<"q">>],
      [prefix |-> EmptyString, delimiter |-> <<Slash>>, maxKeysStr |-> EmptyString,
       marker |-> EmptyString] }

Digits == { "0", "1", "2", "3", "4", "5", "6", "7", "8", "9" }

DigitValue(c) == CHOOSE d \in 0..9 : Digit(d) = c

\* the value of a non-empty string of decimal digits
RECURSIVE decimalValue(_)
decimalValue(ds) ==
    IF Len(ds) = 1 THEN DigitValue(ds[1])
    ELSE 10 * decimalValue(SubSeq(ds, 1, Len(ds) - 1)) + DigitValue(ds[Len(ds)])

\* strconv.Atoi: an optional sign, then decimal digits; an error otherwise
atoi(str) ==
    LET signed == Len(str) > 0 /\ str[1] \in { "+", "-" }
        ds == IF signed THEN Tail(str) ELSE str
        ok == ds # <<>> /\ \A i \in DOMAIN ds : ds[i] \in Digits
    IN  [ok |-> ok,
         value |-> IF ~ok THEN 0
                   ELSE IF signed /\ str[1] = "-" THEN 0 - decimalValue(ds)
                   ELSE decimalValue(ds)]

\* maxKeys of handleListObjects: the max-keys parameter when it is a positive
\* number, the default otherwise
parseMaxKeys(maxKeysStr) ==
    IF maxKeysStr # EmptyString /\ atoi(maxKeysStr).ok /\ atoi(maxKeysStr).value > 0
    THEN atoi(maxKeysStr).value
    ELSE DefaultMaxKeys

\* an ObjectInfo on the channel of ListObjects: an object, or the error that
\* ends the listing
Object(key) == [key |-> key, err |-> FALSE]
ErrEntry == [key |-> EmptyString, err |-> TRUE]

\* the characters of the listed keys, in byte order
Chars == <<Slash, "1", "2", "p", "q">>
Ord(c) == CHOOSE i \in DOMAIN Chars : Chars[i] = c

\* s sorts before t in byte order
RECURSIVE LexLess(_, _)
LexLess(s, t) ==
    IF t = <<>> THEN FALSE
    ELSE IF s = <<>> THEN TRUE
    ELSE IF Head(s) # Head(t) THEN Ord(Head(s)) < Ord(Head(t))
    ELSE LexLess(Tail(s), Tail(t))

\* the keys of a set as objects, in the order the backend enumerates them
RECURSIVE Enumerate(_)
Enumerate(S) ==
    IF S = {} THEN <<>>
    ELSE LET first == CHOOSE k \in S : \A other \in S \ {k} : LexLess(k, other)
         IN  <<Object(first)>> \o Enumerate(S \ {first})

\* the name under which the backend lists key k below a prefix: the key, or
\* its common prefix up to the next "/" in a listing that is not recursive
listedName(k, prefix, recursive) ==
    LET rest == SubSeq(k, Len(prefix) + 1, Len(k))
    IN  IF recursive \/ SlashPositions(rest) = {} THEN k
        ELSE SubSeq(k, 1, Len(prefix) + Min(SlashPositions(rest)))

\* what the channel of ListObjects(bucket, prefix, recursive) may deliver: the
\* backend holds any objects; the listing is complete, or it is cut by an
\* error after some entries; a bucket that cannot be listed yields the error only
Yields(bucket, prefix, recursive) ==
    IF ~bucketUsable(bucket) THEN { <<ErrEntry>> }
    ELSE LET names == { listedName(k, prefix, recursive) :
                          k \in { x \in ListKeys : IsPrefix(prefix, x) } }
         IN  { Enumerate(S) : S \in SUBSET names }
             \cup { Append(Enumerate(S), ErrEntry) : S \in SUBSET names }

RECURSIVE drainSorted(_, _)
drainSorted(all, items) ==
    IF items = <<>> THEN all
    ELSE IF Head(items).err THEN drainSorted(all, Tail(items))
    ELSE LET before == SelectSeq(all, LAMBDA o : ~LexLess(Head(items).key, o.key))
             after == SelectSeq(all, LAMBDA o : LexLess(Head(items).key, o.key))
         IN  drainSorted(before \o <<Head(items)>> \o after, Tail(items))

drainReplacing(all, items) == SelectSeq(items, LAMBDA o : ~o.err)

\* the loop over one channel: an entry with an error is logged and skipped,
\* any other entry is appended to allObjects
RECURSIVE drain(_, _)
drain(all, items) ==
    IF items = <<>> THEN all
    ELSE IF Head(items).err THEN drain(all, Tail(items))
    ELSE drain(Append(all, Head(items)), Tail(items))

\* the log lines of the loop over one channel
logged(bucket, items) ==
    [i \in 1..Len(SelectSeq(items, LAMBDA o : o.err)) |-> bucket]

listBucketResultTruncated(query, all) ==
    [status |-> 200,
     name |-> query.bucketName,
     prefix |-> query.prefix,
     marker |-> query.marker,
     maxKeys |-> query.maxKeys,
     isTruncated |-> Len(all) > query.maxKeys,
     contents |-> SubSeq(all, 1, IF Len(all) > query.maxKeys THEN query.maxKeys ELSE Len(all)),
     commonPrefixes |-> <<>>]

\* the response handleListObjects writes: status 200 and the ListBucketResult
listBucketResult(query, all) ==
    [status |-> 200,
     name |-> query.bucketName,
     prefix |-> query.prefix,
     marker |-> query.marker,
     maxKeys |-> query.maxKeys,
     isTruncated |-> FALSE,
     contents |-> all,
     commonPrefixes |-> <<>>]

\* handleListObjects up to the fan-out loop: the query is read, maxKeys parsed
ListBegin(bucketName, query) ==
    /\ phase = "serving"
    /\ listPc \in { "idle", "done" }
    /\ listReq' = [bucketName |-> bucketName, prefix |-> query.prefix,
                   delimiter |-> query.delimiter,
                   maxKeysStr |-> query.maxKeysStr, marker |-> query.marker,
                   maxKeys |-> parseMaxKeys(query.maxKeysStr)]
    /\ allObjects' = <<>>
    /\ listIdx' = 1
    /\ yielded' = <<>>
    /\ errorLog' = <<>>
    /\ listResp' = NoResponse
    /\ listPc' = "loop"
    /\ cancelledAt' = 0
    /\ UNCHANGED <<routerVars, lookupVars, backendVars, last, config, previous, ensureLog,
                   observedVars>>

ListBucketAbort ==
    /\ listPc = "loop"
    /\ listIdx <= Len(getAllBuckets)
    /\ LET realBucket == getAllBuckets[listIdx]
       IN  \E items \in Yields(realBucket, listReq.prefix, listReq.delimiter = EmptyString) :
              /\ allObjects' = drain(allObjects, items)
              /\ errorLog' = errorLog \o logged(realBucket, items)
              /\ yielded' = Append(yielded, [bucket |-> realBucket, items |-> items])
              /\ listIdx' = IF logged(realBucket, items) # <<>> THEN Len(getAllBuckets) + 1
                            ELSE listIdx + 1
    /\ UNCHANGED <<routerVars, lookupVars, backendVars, last, listPc, listReq, listResp,
                   processVars>>

ListBucketRetry ==
    /\ listPc = "loop"
    /\ listIdx <= Len(getAllBuckets)
    /\ LET realBucket == getAllBuckets[listIdx]
       IN  \E items \in Yields(realBucket, listReq.prefix, listReq.delimiter = EmptyString) :
              /\ allObjects' = drain(allObjects, items)
              /\ errorLog' = errorLog \o logged(realBucket, items)
              /\ yielded' = Append(yielded, [bucket |-> realBucket, items |-> items])
              /\ listIdx' = IF /\ logged(realBucket, items) # <<>>
                               /\ \A i \in DOMAIN yielded : yielded[i].bucket # realBucket
                            THEN listIdx
                            ELSE listIdx + 1
    /\ UNCHANGED <<routerVars, lookupVars, backendVars, last, listPc, listReq, listResp,
                   processVars>>

\* one iteration of the loop over GetAllBuckets(): ListObjects on the bucket,
\* then the loop over its channel until the channel is closed
ListBucket ==
    /\ listPc = "loop"
    /\ listIdx <= Len(getAllBuckets)
    /\ LET realBucket == getAllBuckets[listIdx]
       IN  \E items \in Yields(realBucket, listReq.prefix, listReq.delimiter = EmptyString) :
              /\ allObjects' = drain(allObjects, items)
              /\ errorLog' = errorLog \o logged(realBucket, items)
              /\ yielded' = Append(yielded, [bucket |-> realBucket, items |-> items])
              /\ listIdx' = listIdx + 1
    /\ UNCHANGED <<routerVars, lookupVars, backendVars, last, listPc, listReq, listResp,
                   processVars>>

\* handleListObjects after the loop: the response is written
ListRespond ==
    /\ listPc = "loop"
    /\ listIdx > Len(getAllBuckets)
    /\ listResp' = listBucketResult(listReq, allObjects)
    /\ listPc' = "done"
    /\ UNCHANGED <<routerVars, lookupVars, backendVars, last, listReq, listIdx, allObjects,
                   yielded, errorLog, processVars>>

\* startup alone
NextStartup == \E bs \in ServerConfigs : StartServer(bs)

SpecStartup == Init /\ [][NextStartup]_vars

NextList ==
    \/ \E bs \in ServerConfigs : StartServer(bs)
    \/ \E query \in ListQueries : ListBegin(ProxyBucket, query)
    \/ ListBucket
    \/ ListRespond

SpecList == Init /\ [][NextList]_vars

\* the client of the list request gives up (its deadline passes or it closes
\* the connection) while the fan-out loop has a bucket left: the request's own
\* context is cancelled, but the handler passes context.Background() to
\* ListObjects, so nothing in the handler changes
ClientCancel ==
    /\ listPc = "loop"
    /\ cancelledAt = 0
    /\ listIdx <= Len(getAllBuckets)
    /\ cancelledAt' = listIdx
    /\ UNCHANGED <<routerVars, lookupVars, backendVars, last, listVars, config, previous,
                   ensureLog, observedVars>>

NextCancel ==
    \/ NextList
    \/ ClientCancel

SpecCancel == Init /\ [][NextCancel]_vars

----------------------------------------------------------------------------
(* package server: handleRequest, the dispatch of an HTTP request to a handler *)

\* strings.TrimPrefix(s, "/") and strings.TrimSuffix(s, "/")
TrimPrefix(s) == IF Len(s) > 0 /\ s[1] = Slash THEN Tail(s) ELSE s
TrimSuffix(s) == IF Len(s) > 0 /\ s[Len(s)] = Slash THEN SubSeq(s, 1, Len(s) - 1) ELSE s

\* strings.Split(s, "/")
Split(s) == SplitN(s, Len(s) + 1)

\* strings.Join(parts[from:], "/") with from counted from 1
RECURSIVE Join(_, _)
Join(parts, from) ==
    IF from > Len(parts) THEN EmptyString
    ELSE IF from = Len(parts) THEN parts[from]
    ELSE parts[from] \o <<Slash>> \o Join(parts, from + 1)

\* TempoS3ShardServer.handleListBuckets: the virtual bucket, no backend call
HandleListBuckets ==
    /\ phase = "serving"
    /\ last' = Handled("list-buckets", EmptyString, EmptyString, <<>>, 200)
    /\ UNCHANGED <<routerVars, lookupVars, backendVars, listVars, processVars>>

\* TempoS3ShardServer.handleGetBucketLocation
HandleGetBucketLocation(bucketName) ==
    /\ phase = "serving"
    /\ last' = Handled("location", bucketName, EmptyString, <<>>,
                       IF bucketName # ProxyBucket THEN 404 ELSE 200)
    /\ UNCHANGED <<routerVars, lookupVars, backendVars, listVars, processVars>>

\* handleRequest returns without calling a handler: net/http answers 200 with
\* an empty body
NoHandler(method) ==
    /\ phase = "serving"
    /\ last' = Handled("no-handler", EmptyString, EmptyString, <<>>, 200)
    /\ UNCHANGED <<routerVars, lookupVars, backendVars, listVars, processVars>>

\* the default branch of handleRequest: "Method not allowed"
MethodNotAllowed(method) ==
    /\ phase = "serving"
    /\ last' = Handled("method-not-allowed", EmptyString, EmptyString, <<>>, 405)
    /\ UNCHANGED <<routerVars, lookupVars, backendVars, listVars, processVars>>

\* the handler handleRequest chooses for a request, with the bucket name and
\* the object key it passes: the path is trimmed and split, the first part is
\* the bucket name and the rest, joined again, the object key. The tagging
\* test reads r.URL.Query().Get("tagging"), the value of the parameter.
dispatch(r) ==
    LET path == TrimSuffix(TrimPrefix(r.path))
        pathParts == IF path = EmptyString THEN <<>> ELSE Split(path)
        objectKey == Join(pathParts, 2)
        To(handler) ==
            [handler |-> handler,
             bucketName |-> IF Len(pathParts) >= 1 THEN pathParts[1] ELSE EmptyString,
             objectKey |-> objectKey]
    IN  CASE r.method = "GET" ->
               IF Len(pathParts) = 0 \/ pathParts[1] = EmptyString THEN To("handleListBuckets")
               ELSE IF Len(pathParts) = 1
               THEN IF r.hasLocation THEN To("handleGetBucketLocation")
                    ELSE To("handleListObjects")
               ELSE IF r.tagging # EmptyString THEN To("handleGetObjectTagging")
               ELSE To("handleGetObject")
          [] r.method = "PUT" ->
               IF Len(pathParts) >= 2
               THEN IF r.tagging # EmptyString THEN To("handlePutObjectTagging")
                    ELSE To("handlePutObject")
               ELSE To("none")
          [] r.method = "DELETE" ->
               IF Len(pathParts) >= 2 THEN To("handleDeleteObject") ELSE To("none")
          [] r.method = "HEAD" ->
               IF Len(pathParts) >= 2 THEN To("handleHeadObject") ELSE To("none")
          [] OTHER -> To("http.Error")

\* TempoS3ShardServer.handleRequest: the chosen handler runs
HandleRequest(r) ==
    LET d == dispatch(r)
    IN  CASE d.handler = "handleListBuckets" -> HandleListBuckets
          [] d.handler = "handleGetBucketLocation" -> HandleGetBucketLocation(d.bucketName)
          [] d.handler = "handleListObjects" -> ListBegin(d.bucketName, r)
          [] d.handler = "handleGetObjectTagging" ->
               HandleGetObjectTagging(d.bucketName, d.objectKey)
          [] d.handler = "handleGetObject" -> HandleGetObject(d.bucketName, d.objectKey)
          [] d.handler = "handlePutObjectTagging" ->
               HandlePutObjectTagging(d.bucketName, d.objectKey)
          [] d.handler = "handlePutObject" -> HandlePutObject(d.bucketName, d.objectKey)
          [] d.handler = "handleDeleteObject" -> HandleDeleteObject(d.bucketName, d.objectKey)
          [] d.handler = "handleHeadObject" -> HandleHeadObject(d.bucketName, d.objectKey)
          [] d.handler = "none" -> NoHandler(r.method)
          [] OTHER -> MethodNotAllowed(r.method)

\* an HTTP request: method, URL path, and the query parameters the server
\* reads; hasTagging tells whether the query names the tagging parameter,
\* tagging is the value url.Values.Get returns for it
Request(method, path, hasLocation, tagging, prefix) ==
    [method |-> method, path |-> path, hasLocation |-> hasLocation,
     hasTagging |-> tagging # EmptyString, tagging |-> tagging,
     prefix |-> prefix, delimiter |-> EmptyString, maxKeysStr |-> EmptyString,
     marker |-> EmptyString]

\* a bucket name that is not the virtual bucket
OtherBucket == <<"x">>

\* the URL paths of the requests: the root, a bucket, an object of key "s"
RootPath == <<Slash>>
BucketPath(bucketName) == <<Slash>> \o bucketName
ObjectPath(bucketName) == <<Slash>> \o bucketName \o <<Slash, "s">>

\* the requests sent to the server, to the virtual bucket and to another name
Requests ==
    { Request("GET", RootPath, FALSE, EmptyString, EmptyString),
      Request("PUT", BucketPath(ProxyBucket), FALSE, EmptyString, EmptyString),
      Request("POST", ObjectPath(ProxyBucket), FALSE, EmptyString, EmptyString) }
    \cup
    { Request("GET", BucketPath(b), loc, EmptyString, IF loc THEN EmptyString ELSE <<"q">>) :
        b \in { ProxyBucket, OtherBucket }, loc \in BOOLEAN }
    \cup
    { Request(m, ObjectPath(b), FALSE, EmptyString, EmptyString) :
        m \in { "GET", "PUT", "DELETE", "HEAD" }, b \in { ProxyBucket, OtherBucket } }
    \cup
    { Request(m, ObjectPath(b), FALSE, <<"1">>, EmptyString) :
        m \in { "GET", "PUT" }, b \in { ProxyBucket, OtherBucket } }

\* the configuration of the server the requests are sent to
RequestConfigs == { bs \in ServerConfigs : Len(bs) = 1 }

NextRequest ==
    \/ \E bs \in RequestConfigs : StartServer(bs)
    \/ \E r \in Requests : HandleRequest(r)
    \/ ListBucket
    \/ ListRespond

SpecRequest == Init /\ [][NextRequest]_vars

\* list requests and uploads sent to a server of two buckets, side by side
CallConfigs == { bs \in ServerConfigs : Len(bs) = 2 /\ DuplicateFree(bs) }
CallQueries == { q \in ListQueries : q.prefix # EmptyString }
CallKeys == { <<"s">> }

NextCalls ==
    \/ \E bs \in CallConfigs : StartServer(bs)
    \/ \E key \in CallKeys : HandlePutObject(ProxyBucket, key)
    \/ \E key \in CallKeys : HandleGetObject(ProxyBucket, key)
    \/ \E query \in CallQueries : ListBegin(ProxyBucket, query)
    \/ ListBucket
    \/ ListRespond

SpecCalls == Init /\ [][NextCalls]_vars

----------------------------------------------------------------------------
(* addBucket: the strings handed to hash, for bucket names that end in a digit *)

\* replica indices run over 0..MaxReplicas - 1 (the client manager asks for 100)
MaxReplicas == 11

\* bucket names, one of them another name followed by a digit
InputBuckets == { <<"a">>, <<"a", "1">>, <<"b">> }

\* one iteration of the loop of addBucket, up to the call of hash: the string
\* bucket + strconv.Itoa(i); the last two strings are kept
HashReplica(bucket, i) ==
    /\ hashInput' = << [bucket |-> bucket, index |-> i, input |-> ReplicaInput(bucket, i)] >>
                     \o (IF hashInput = <<>> THEN <<>> ELSE <<hashInput[1]>>)
    /\ UNCHANGED <<routerVars, lookupVars, backendVars, last, listVars, config, previous,
                   ensureLog, cancelledAt, dispatched, metrics>>

NextInputs == \E bucket \in InputBuckets, i \in 0..(MaxReplicas - 1) : HashReplica(bucket, i)

SpecInputs == Init /\ [][NextInputs]_vars

----------------------------------------------------------------------------
(* The instrumented server: handleListObjects with its counters *)

\* list requests counted per prefix; the counters stop the model there
MaxListRequests == 2

\* metrics.S3OperationsTotal.WithLabelValues(operation, bucket, status)
S3OperationsTotal(operation, bucket, status) ==
    <<"tempo_s3_shard_s3_operations_total", operation, bucket, status>>

\* metrics.ListOperationsTotal.WithLabelValues(prefix)
ListOperationsTotal(prefix) == <<"tempo_s3_shard_list_operations_total", prefix>>

\* metrics.BucketOperationsTotal.WithLabelValues(bucket, operation)
BucketOperationsTotal(bucket, operation) ==
    <<"tempo_s3_shard_bucket_operations_total", bucket, operation>>

\* the value of a counter: zero until it is incremented
counterValue(m, labels) == IF labels \in DOMAIN m THEN m[labels] ELSE 0

\* Counter.Inc()
Inc(m, labels) ==
    [x \in DOMAIN m \cup {labels} |-> IF x = labels THEN counterValue(m, labels) + 1 ELSE m[x]]

\* the counters after the loop over one channel: "error" is incremented for
\* every entry that carries an error
RECURSIVE countErrors(_, _, _)
countErrors(m, bucket, items) ==
    IF items = <<>> THEN m
    ELSE IF Head(items).err
    THEN countErrors(Inc(m, S3OperationsTotal("list", bucket, "error")), bucket, Tail(items))
    ELSE countErrors(m, bucket, Tail(items))

\* the counters after one iteration of the fan-out loop: after the channel is
\* drained, "success" and the bucket's operation counter are incremented
countBucket(m, bucket, items) ==
    Inc(Inc(countErrors(m, bucket, items), S3OperationsTotal("list", bucket, "success")),
        BucketOperationsTotal(bucket, "list"))

\* handleListObjects of the instrumented server up to the fan-out loop
ListBeginInstrumented(bucketName, query) ==
    /\ phase = "serving"
    /\ listPc \in { "idle", "done" }
    /\ counterValue(metrics, ListOperationsTotal(query.prefix)) < MaxListRequests
    /\ listReq' = [bucketName |-> bucketName, prefix |-> query.prefix,
                   delimiter |-> query.delimiter,
                   maxKeysStr |-> query.maxKeysStr, marker |-> query.marker,
                   maxKeys |-> parseMaxKeys(query.maxKeysStr)]
    /\ allObjects' = <<>>
    /\ listIdx' = 1
    /\ yielded' = <<>>
    /\ errorLog' = <<>>
    /\ listResp' = NoResponse
    /\ listPc' = "loop"
    /\ cancelledAt' = 0
    /\ metrics' = Inc(metrics, ListOperationsTotal(query.prefix))
    /\ UNCHANGED <<routerVars, lookupVars, backendVars, last, config, previous, ensureLog,
                   dispatched, hashInput>>

\* one iteration of the fan-out loop of the instrumented server
ListBucketInstrumented ==
    /\ listPc = "loop"
    /\ listIdx <= Len(getAllBuckets)
    /\ LET realBucket == getAllBuckets[listIdx]
       IN  \E items \in Yields(realBucket, listReq.prefix, listReq.delimiter = EmptyString) :
              /\ allObjects' = drain(allObjects, items)
              /\ errorLog' = errorLog \o logged(realBucket, items)
              /\ yielded' = Append(yielded, [bucket |-> realBucket, items |-> items])
              /\ listIdx' = listIdx + 1
              /\ metrics' = countBucket(metrics, realBucket, items)
    /\ UNCHANGED <<routerVars, lookupVars, backendVars, last, listPc, listReq, listResp,
                   config, previous, ensureLog, cancelledAt, dispatched, hashInput>>

\* the configurations and the list requests of the instrumented server
MetricConfigs == { bs \in ServerConfigs : Len(bs) = 2 /\ bs[1] = <<"a">> }
MetricQueries == { q \in ListQueries : q.prefix # EmptyString }

NextMetrics ==
    \/ \E bs \in MetricConfigs : StartServer(bs)
    \/ \E query \in MetricQueries : ListBeginInstrumented(ProxyBucket, query)
    \/ ListBucketInstrumented
    \/ ListRespond

SpecMetrics == Init /\ [][NextMetrics]_vars

----------------------------------------------------------------------------
(* Uploads, deletes and list requests on a backend that lists what it stores *)

\* bucket lists of two entries, one of them naming a bucket twice
StoredConfigs == { bs \in ServerConfigs : Len(bs) = 2 /\ bs[1] = <<"a">> }

\* list requests with an empty prefix, without and with a delimiter
StoredQueries == { q \in ListQueries : q.prefix = EmptyString /\ q.maxKeysStr = EmptyString }

\* the keys uploaded and deleted
StoredKeys == { k \in ListKeys : k \in { <<"p", "/", "1">>, <<"q">> } }

\* what ListObjects delivers for a bucket whose listing succeeds: the objects
\* the bucket holds under the prefix
stored(bucket, prefix, recursive) ==
    Enumerate({ listedName(k, prefix, recursive) :
                  k \in { x \in ListKeys : <<bucket, x>> \in store /\ IsPrefix(prefix, x) } })

\* one iteration of the fan-out loop on a backend that answers every listing
\* of an existing bucket, with the objects stored in it
ListStoredBucket ==
    /\ ListBucket
    /\ bucketUsable(getAllBuckets[listIdx]) =>
          yielded'[Len(yielded')].items =
              stored(getAllBuckets[listIdx], listReq.prefix, listReq.delimiter = EmptyString)

\* every bucket exists once the server has started; uploads and deletes come
\* between list requests, not during one
NextStored ==
    \/ \E bs \in StoredConfigs : StartServer(bs) /\ Range(bs) \subseteq existing'
    \/ \E key \in StoredKeys : listPc # "loop" /\ HandlePutObject(ProxyBucket, key)
    \/ \E key \in StoredKeys : listPc # "loop" /\ HandleDeleteObject(ProxyBucket, key)
    \/ \E query \in StoredQueries : ListBegin(ProxyBucket, query)
    \/ ListStoredBucket
    \/ ListRespond

SpecStored == Init /\ [][NextStored]_vars

----------------------------------------------------------------------------
(* handleRequest as a function of the request: which handler, which key *)

\* the request with the tagging parameter named without a value ("?tagging"):
\* url.Values.Get("tagging") returns the empty string for it
ValuelessTagging(r) == [r EXCEPT !.hasTagging = TRUE]

\* URL paths: the root, the bucket, and object paths that end in no, one or
\* two separators
DispatchPaths ==
    { RootPath, BucketPath(ProxyBucket), ObjectPath(ProxyBucket),
      ObjectPath(ProxyBucket) \o <<Slash>>, ObjectPath(ProxyBucket) \o <<Slash, Slash>> }

DispatchMethods == { "GET", "PUT", "DELETE", "POST" }

\* the requests: every method on every path, without the tagging parameter,
\* with "?tagging" and with "?tagging=1"
DispatchRequests ==
    LET plain == { Request(m, path, FALSE, EmptyString, EmptyString) :
                     m \in DispatchMethods, path \in DispatchPaths }
    IN  plain
        \cup { ValuelessTagging(r) : r \in plain }
        \cup { Request(m, path, FALSE, <<"1">>, EmptyString) :
                 m \in DispatchMethods, path \in DispatchPaths }

\* handleRequest up to the call of the handler; the last two requests are kept
Dispatch(r) ==
    /\ dispatched' = << [request |-> r, handler |-> dispatch(r).handler,
                         bucketName |-> dispatch(r).bucketName,
                         objectKey |-> dispatch(r).objectKey] >>
                      \o (IF dispatched = <<>> THEN <<>> ELSE <<dispatched[1]>>)
    /\ UNCHANGED <<routerVars, lookupVars, backendVars, last, listVars, config, previous,
                   ensureLog, cancelledAt, hashInput, metrics>>

NextDispatch == \E r \in DispatchRequests : Dispatch(r)

SpecDispatch == Init /\ [][NextDispatch]_vars

----------------------------------------------------------------------------
(* Properties of the key policy and the ring *)

\* the position of the n-th separator of s
NthSlash(s, n) ==
    CHOOSE p \in SlashPositions(s) : Cardinality({ q \in SlashPositions(s) : q < p }) = n - 1

\* the number of "/"-delimited segments of s
SegmentCount(s) == Cardinality(SlashPositions(s)) + 1

\* the n-th "/"-delimited segment of s, 1 <= n <= SegmentCount(s)
Segment(s, n) ==
    LET start == IF n = 1 THEN 0 ELSE NthSlash(s, n - 1)
        end == IF n = SegmentCount(s) THEN Len(s) + 1 ELSE NthSlash(s, n)
    IN  SubSeq(s, start + 1, end - 1)

\* k1 and k2 have two segments or more and the same first two
SameFirstTwoSegments(k1, k2) ==
    /\ SegmentCount(k1) >= 2
    /\ SegmentCount(k2) >= 2
    /\ Segment(k1, 1) = Segment(k2, 1)
    /\ Segment(k1, 2) = Segment(k2, 2)

\* the buckets that own a ring point
RingBuckets == { hashMap[p] : p \in DOMAIN hashMap }

\* C1. Prefix grouping: any two routed keys that have at least two segments
\* and agree on their first two segments were given the same bucket.
PrefixGrouping ==
    \A k1 \in DOMAIN routed : \A k2 \in DOMAIN routed :
        SameFirstTwoSegments(k1, k2) => routed[k1].bucket = routed[k2].bucket

\* two different keys of one prefix group were routed on a ring of two buckets
PrefixGroupingWitness ==
    /\ Cardinality(RingBuckets) >= 2
    /\ \E k1 \in DOMAIN routed : \E k2 \in DOMAIN routed :
          /\ k1 # k2
          /\ SameFirstTwoSegments(k1, k2)

\* a configuration is valid when it names a bucket and the replica count is positive
ValidConfiguration == Len(buckets) > 0 /\ replicas > 0

\* C2. Membership: under a valid configuration every bucket GetBucket
\* returned is an element of the list GetAllBuckets returns.
Membership ==
    ValidConfiguration =>
        \A k \in DOMAIN routed : routed[k].bucket \in Range(buckets)

\* a key was routed under a valid configuration, its hash above every ring
\* point, and GetAllBuckets has been called
MembershipWitness ==
    /\ ValidConfiguration
    /\ allBuckets = buckets
    /\ \E k \in DOMAIN routed :
          /\ routed[k].bucket \in Range(allBuckets)
          /\ \A p \in Range(keys) : p < routed[k].hash

\* the bucket of the first ring point at or after hash h, the smallest point
\* of the ring when there is none
Successor(h) ==
    LET atOrAfter == { p \in Range(keys) : p >= h }
    IN  IF atOrAfter # {} THEN hashMap[Min(atOrAfter)] ELSE hashMap[Min(Range(keys))]

\* C3. Ring resolution with wraparound: on a non-empty ring every GetBucket
\* call returned the bucket of the smallest ring point >= the hash of its
\* routing key, or of the smallest ring point when no point is >= that hash;
\* the result is a bucket name, never empty.
RingResolution ==
    Len(keys) > 0 =>
        \A k \in DOMAIN routed :
            /\ routed[k].hash = sha[routed[k].hashKey]
            /\ routed[k].bucket = Successor(routed[k].hash)
            /\ routed[k].bucket \in BucketNames

\* one key wrapped around and another did not, on a ring whose smallest and
\* largest points belong to different buckets
RingResolutionWitness ==
    /\ Len(keys) > 1
    /\ hashMap[keys[1]] # hashMap[keys[Len(keys)]]
    /\ \E k \in DOMAIN routed : routed[k].hash > keys[Len(keys)]
    /\ \E k \in DOMAIN routed : routed[k].hash > keys[1] /\ routed[k].hash <= keys[Len(keys)]

\* C4. Routing-key derivation: the routing key is a prefix of the object key;
\* it is the key itself when the key has no "/", the first two segments
\* joined by "/" otherwise, and nothing after the second "/" influences it.
RoutingKeyDerivation ==
    /\ IsPrefix(lastHashKey, lastKey)
    /\ SlashPositions(lastKey) = {} => lastHashKey = lastKey
    /\ SlashPositions(lastKey) # {} =>
          lastHashKey = Segment(lastKey, 1) \o <<Slash>> \o Segment(lastKey, 2)
    /\ \A k \in AllKeys :
          (/\ SegmentCount(k) >= 3
           /\ SegmentCount(lastKey) >= 3
           /\ SubSeq(k, 1, NthSlash(k, 2)) = SubSeq(lastKey, 1, NthSlash(lastKey, 2)))
          => extractHashKey(k) = lastHashKey

\* a key with a non-empty remainder after its second "/" was cut to its first
\* two segments
RoutingKeyDerivationWitness ==
    /\ SegmentCount(lastKey) >= 3
    /\ NthSlash(lastKey, 2) < Len(lastKey)
    /\ Segment(lastKey, 1) # EmptyString
    /\ lastHashKey # lastKey
    /\ Len(lastHashKey) = NthSlash(lastKey, 2) - 1

----------------------------------------------------------------------------
(* Properties of startup and of the single-object handlers *)

\* C5. Ring construction fails when the bucket list is empty or the replica
\* count is <= 0 and the failure prevents startup: a server that serves was
\* built from a non-empty bucket list with a positive replica count.
ConfigurationErrorPreventsStartup ==
    phase \in { "built", "serving" } => (Len(buckets) > 0 /\ replicas > 0)

\* the bucket the ring assigns to a key whose routing key has been hashed
RouteOf(key) ==
    IF Len(keys) = 0 THEN EmptyString ELSE Successor(sha[extractHashKey(key)])

\* the buckets the backend calls of the last request went to
CalledBuckets == { last.calls[i].bucket : i \in DOMAIN last.calls }

\* C6. Single-partition routing: every backend call of a put, get, head,
\* delete, get-tagging or put-tagging request names the request's key and goes
\* to the one bucket the ring assigns to that key (a request answered 400 is
\* rejected before its backend call and makes none); every stored object lies
\* in the bucket the ring assigns to its key; and a get, head or delete of a
\* stored key is sent to a bucket that holds it.
SinglePartitionRouting ==
    /\ \A i \in DOMAIN last.calls :
          /\ last.calls[i].bucket = RouteOf(last.key)
          /\ last.calls[i].key = last.key
    /\ last.op # "none" =>
          IF last.status = 400 THEN last.calls = <<>> ELSE Cardinality(CalledBuckets) = 1
    /\ \A o \in store : o[1] = RouteOf(o[2])
    /\ (last.op \in { "get", "head", "delete" } /\ last.held # {}) =>
          CalledBuckets \subseteq last.held

\* two objects lie in different buckets and a get of one of them was answered
\* from the bucket that holds it
SinglePartitionRoutingWitness ==
    /\ Cardinality({ o[1] : o \in store }) = 2
    /\ last.op = "get"
    /\ last.status = 200
    /\ last.held = { RouteOf(last.key) }
    /\ Len(last.calls) = 2

----------------------------------------------------------------------------
(* Properties of handleListObjects *)

\* the entries of a channel that carry no error
Successful(items) == SelectSeq(items, LAMBDA o : ~o.err)

\* the listing on this channel failed
Failed(items) == \E i \in DOMAIN items : items[i].err

\* the successful entries of the first n channels, one channel after the other
RECURSIVE Merged(_, _)
Merged(ys, n) == IF n = 0 THEN <<>> ELSE Merged(ys, n - 1) \o Successful(ys[n].items)

\* every configured bucket was listed once, in the order of GetAllBuckets()
FannedOut ==
    /\ Len(yielded) = Len(buckets)
    /\ \A i \in DOMAIN yielded : yielded[i].bucket = buckets[i]

\* C7. Aggregation ordering: the merged listing is the concatenation, in
\* GetAllBuckets() order, of the error-free entries of each bucket's channel
\* in the order the channel delivered them; it is not re-sorted by key; a
\* later bucket's entries are appended only after the earlier bucket's channel
\* was drained.
AggregationOrdering ==
    /\ listPc = "loop" => allObjects = Merged(yielded, Len(yielded))
    /\ listPc = "done" =>
          /\ FannedOut
          /\ listResp.contents = Merged(yielded, Len(buckets))

\* the first bucket delivered two entries, the second bucket one entry that
\* sorts before them, and the response lists the three in fan-out order
AggregationOrderingWitness ==
    /\ listPc = "done"
    /\ Len(yielded) = 2
    /\ yielded[1].bucket # yielded[2].bucket
    /\ Len(Successful(yielded[1].items)) = 2
    /\ Len(Successful(yielded[2].items)) = 1
    /\ Len(listResp.contents) = 3
    /\ LexLess(listResp.contents[3].key, listResp.contents[1].key)

\* C8. Degraded-but-available listing: whichever bucket listings fail, every
\* configured bucket is still listed, every entry of every bucket whose
\* listing did not fail is in the response, and the response status is 200.
DegradedButAvailable ==
    listPc = "done" =>
        /\ listResp.status = 200
        /\ FannedOut
        /\ \A i \in DOMAIN yielded :
              ~Failed(yielded[i].items) =>
                  \A j \in DOMAIN yielded[i].items :
                      \E c \in DOMAIN listResp.contents :
                          listResp.contents[c] = yielded[i].items[j]

\* the first bucket's listing failed, the second bucket's listing succeeded
\* with entries, and the response carries them with status 200
DegradedButAvailableWitness ==
    /\ listPc = "done"
    /\ Len(yielded) = 2
    /\ Failed(yielded[1].items)
    /\ ~Failed(yielded[2].items)
    /\ Len(yielded[2].items) > 0
    /\ listResp.status = 200
    /\ Len(listResp.contents) >= Len(yielded[2].items)

\* the partition failures a list response carries
PartitionFailures(resp) == IF "failures" \in DOMAIN resp THEN resp.failures ELSE <<>>

\* C9. Failure recording: when a bucket's listing fails, the list result
\* holds exactly one PartitionFailure naming that bucket, and none of the
\* entries that listing delivered is in the merged listing.
FailureRecording ==
    listPc = "done" =>
        \A i \in DOMAIN yielded :
            Failed(yielded[i].items) =>
                /\ Cardinality({ f \in DOMAIN PartitionFailures(listResp) :
                                   PartitionFailures(listResp)[f].partition = yielded[i].bucket }) = 1
                /\ \A j \in DOMAIN yielded[i].items :
                      \A c \in DOMAIN listResp.contents :
                          listResp.contents[c] # yielded[i].items[j]

\* C10. No truncation: whatever max-keys and marker the request carries, the
\* response holds every successfully listed entry and IsTruncated is false.
NoTruncation ==
    listPc = "done" =>
        /\ listResp.isTruncated = FALSE
        /\ Len(listResp.contents) = Len(Merged(yielded, Len(yielded)))
        /\ \A i \in DOMAIN yielded : \A j \in DOMAIN yielded[i].items :
              ~yielded[i].items[j].err =>
                  \E c \in DOMAIN listResp.contents :
                      listResp.contents[c] = yielded[i].items[j]

\* a request with max-keys=1 and a marker was answered with two entries
NoTruncationWitness ==
    /\ listPc = "done"
    /\ listReq.maxKeysStr = <<"1">>
    /\ listReq.maxKeys = 1
    /\ listReq.marker # EmptyString
    /\ Len(listResp.contents) > listReq.maxKeys
    /\ listResp.isTruncated = FALSE

----------------------------------------------------------------------------
(* Properties of the rebuilt ring *)

\* the keys routed by the old process and again by the new one
RoutedTwice == DOMAIN routed \cap DOMAIN previous.routed

\* the buckets of the old configuration that the new one lacks
Removed == Range(previous.buckets) \ Range(buckets)

\* C11. Minimal redistribution: when the ring is rebuilt from a
\* duplicate-free list of at least two buckets without one bucket r, with
\* the same positive replica count, the only keys whose bucket changes are
\* keys that were routed to r; every other key keeps its bucket.
MinimalRedistribution ==
    ( /\ previous # NoRouter
      /\ ~previous.restarted
      /\ DuplicateFree(previous.buckets)
      /\ Len(previous.buckets) >= 2
      /\ replicas > 0 ) =>
        \A k \in RoutedTwice :
            previous.routed[k].bucket \notin Removed =>
                routed[k].bucket = previous.routed[k].bucket

\* a ring of three buckets was rebuilt without one of them; of two keys
\* routed before and after, one had been on the removed bucket and moved, the
\* other kept its bucket
MinimalRedistributionWitness ==
    /\ previous # NoRouter
    /\ Len(previous.buckets) = 3
    /\ Len(buckets) = 2
    /\ \E k1 \in RoutedTwice : \E k2 \in RoutedTwice :
          /\ previous.routed[k1].bucket \in Removed
          /\ routed[k1].bucket # previous.routed[k1].bucket
          /\ previous.routed[k2].bucket \notin Removed
          /\ routed[k2].bucket = previous.routed[k2].bucket

\* the routers of the two processes agree: the same ring and the same bucket
\* for every key both have routed
SameRouting ==
    ( /\ previous # NoRouter
      /\ previous.buckets = buckets
      /\ previous.replicas = replicas ) =>
        /\ keys = previous.keys
        /\ hashMap = previous.hashMap
        /\ \A k \in RoutedTwice : routed[k].bucket = previous.routed[k].bucket

\* a GetBucket call for a key this router has routed before returns the same bucket
SameAnswer ==
    \A k \in DOMAIN routed \cap DOMAIN routed' : routed'[k].bucket = routed[k].bucket

\* C12. Determinism: two routers built independently from the same ordered
\* bucket list and replica count have the same ring and return the same
\* bucket for every key, and a repeated GetBucket(k) on one router returns
\* the bucket it returned before.
Determinism == [][SameRouting' /\ SameAnswer]_vars

\* after a restart on the same configuration of two buckets or more, a key
\* was routed by both processes to the same bucket, and the ring names
\* more than one bucket
DeterminismWitness ==
    /\ previous # NoRouter
    /\ previous.restarted
    /\ Cardinality(RingBuckets) >= 2
    /\ \E k \in RoutedTwice : routed[k].bucket = previous.routed[k].bucket
    /\ Cardinality(DOMAIN routed) = 2

----------------------------------------------------------------------------
(* Properties of GetAllBuckets and of the handlers that use it *)

\* the buckets the ListObjects calls of the current list request went to, in call order
FanOut == [i \in DOMAIN yielded |-> yielded[i].bucket]

\* C13. GetAllBuckets returns the bucket list of the configuration, with
\* the same elements, multiplicity and order (not ring order): the fan-out of
\* a list request, which loops over GetAllBuckets(), visits the configured
\* buckets in configuration order, and has visited all of them, duplicates
\* included, when the response is written.
ConfiguredOrder ==
    /\ phase = "serving" => getAllBuckets = config
    /\ listPc \in { "loop", "done" } => FanOut = SubSeq(config, 1, Len(yielded))
    /\ listPc = "done" => FanOut = config

\* a list request was answered under a configuration whose order is the
\* reverse of the ring order of its two buckets
ConfiguredOrderWitness ==
    /\ listPc = "done"
    /\ Len(config) = 2
    /\ config[1] # config[2]
    /\ keys[1] < keys[2]
    /\ hashMap[keys[1]] = config[2]
    /\ FanOut = config

\* C14. Concurrent fan-out: the ListObjects calls of one list request are
\* issued concurrently, one per bucket, and joined before merging: while the
\* request is being handled, no bucket's listing has been drained into the
\* merged result before the call for every configured bucket has been issued.
ConcurrentFanOut ==
    (listPc = "loop" /\ Len(yielded) >= 1) => Len(yielded) = Len(getAllBuckets)

\* C15. Cancellation: once the client of a list request has given up, every
\* ListObjects call that had not finished by then is cut short with an error,
\* and each such bucket is recorded as one PartitionFailure in the list result.
CancellationPropagates ==
    (listPc = "done" /\ cancelledAt > 0) =>
        \A i \in cancelledAt..Len(yielded) :
            /\ Failed(yielded[i].items)
            /\ Cardinality({ f \in DOMAIN PartitionFailures(listResp) :
                               PartitionFailures(listResp)[f].partition = yielded[i].bucket }) = 1

\* the ListObjects calls of the current list request that went to bucket b
ListCalls(b) == { i \in DOMAIN yielded : yielded[i].bucket = b }

\* C16. No retries: a list request calls ListObjects exactly once for every
\* configured bucket, also for a bucket whose listing failed, and a
\* single-object request makes each of its backend calls at most once,
\* whether or not the call failed.
NoRetries ==
    /\ listPc = "loop" => \A b \in Range(config) : Cardinality(ListCalls(b)) <= 1
    /\ listPc = "done" => \A b \in Range(config) : Cardinality(ListCalls(b)) = 1
    /\ \A i \in DOMAIN last.calls : \A j \in DOMAIN last.calls :
          last.calls[i].op = last.calls[j].op => i = j
    /\ last.op = "put" => Len(last.calls) <= 1

\* a list request was answered although the listing of its first bucket had
\* failed, and an upload had failed with its one PutObject call
NoRetriesWitness ==
    /\ listPc = "done"
    /\ Len(yielded) = 2
    /\ Failed(yielded[1].items)
    /\ last.op = "put"
    /\ last.status = 500
    /\ Len(last.calls) = 1

\* the requests, other than the listing of the virtual buckets, that name a bucket
BucketRequests ==
    { "location", "put", "get", "delete", "head", "get-tagging", "put-tagging" }

\* C18. Virtual bucket name: a bucket-location, list, get, put, delete, head
\* or tagging request that names a bucket other than "proxy-bucket" is
\* answered 404 (bucket not found) and causes no backend call.
VirtualBucketOnly ==
    /\ (last.op \in BucketRequests /\ last.bucketName # ProxyBucket) =>
          (last.status = 404 /\ last.calls = <<>>)
    /\ (listPc # "idle" /\ listReq.bucketName # ProxyBucket) => yielded = <<>>
    /\ (listPc = "done" /\ listReq.bucketName # ProxyBucket) => listResp.status = 404

----------------------------------------------------------------------------
(* Properties of startup provisioning *)

\* the BucketExists calls of EnsureBucketsExist, in call order, and their buckets
Checks == SelectSeq(ensureLog, LAMBDA c : c.op = "BucketExists")
CheckedBuckets == [i \in DOMAIN Checks |-> Checks[i].bucket]

\* a bucket is created exactly when its check reported it missing: every
\* successful check that found no bucket is followed by MakeBucket on that
\* bucket, and MakeBucket is called nowhere else
CreatedWhenMissing ==
    \A i \in DOMAIN ensureLog :
        LET c == ensureLog[i]
        IN  /\ (c.op = "BucketExists" /\ ~c.err /\ ~c.exists) =>
                  /\ i + 1 \in DOMAIN ensureLog
                  /\ ensureLog[i + 1].op = "MakeBucket"
                  /\ ensureLog[i + 1].bucket = c.bucket
            /\ c.op = "MakeBucket" =>
                  /\ i - 1 \in DOMAIN ensureLog
                  /\ ensureLog[i - 1] = EnsureCall("BucketExists", c.bucket, FALSE, FALSE)

\* no call of EnsureBucketsExist returned an error
Provisioned == \A i \in DOMAIN ensureLog : ~ensureLog[i].err

----------------------------------------------------------------------------
(* Properties of the ring after construction *)

\* the router's fields are left as they are
RouterUnchanged ==
    /\ keys' = keys
    /\ hashMap' = hashMap
    /\ buckets' = buckets
    /\ replicas' = replicas

\* every result held after the step is what the ring as constructed gives,
\* whatever calls came before: the bucket of each routed key, the bucket list
ResultsOfTheRing ==
    /\ \A k \in DOMAIN routed' :
          routed'[k].bucket = IF Len(keys) = 0 THEN EmptyString
                              ELSE Successor(sha'[extractHashKey(k)])
    /\ allBuckets' \in { <<>>, buckets }

\* C19. Read-only router: once constructed, no GetBucket or GetAllBuckets
\* call changes keys, hashMap, buckets or replicas, so the calls return the
\* same results in any order in which they are made.
ReadOnlyRouter == [][phase = "built" => (RouterUnchanged /\ ResultsOfTheRing)]_vars

\* both kinds of call were made on a ring of two buckets: two keys with
\* different routing keys were routed and GetAllBuckets returned the list
ReadOnlyRouterWitness ==
    /\ phase = "built"
    /\ Cardinality(RingBuckets) = 2
    /\ allBuckets = buckets
    /\ \E k1 \in DOMAIN routed : \E k2 \in DOMAIN routed :
          routed[k1].hashKey # routed[k2].hashKey

\* the sequence is sorted ascending
Ascending(s) == \A i \in DOMAIN s : \A j \in DOMAIN s : i < j => s[i] <= s[j]

\* C20. Ring shape: a ring constructed with a positive replica count is
\* sorted ascending, has Len(buckets) * replicas entries, and hashMap gives
\* every ring point exactly one bucket, a configured one.
RingShape ==
    (phase = "built" /\ replicas > 0) =>
        /\ Ascending(keys)
        /\ Len(keys) = Len(buckets) * replicas
        /\ DOMAIN hashMap = Range(keys)
        /\ \A p \in Range(keys) : hashMap[p] \in Range(buckets)

\* a ring of two buckets with two replicas each, on which two points collide
RingShapeWitness ==
    /\ phase = "built"
    /\ replicas = 2
    /\ Cardinality(Range(buckets)) = 2
    /\ Len(keys) = 4
    /\ Cardinality(Range(keys)) = 3
    /\ Cardinality(RingBuckets) = 2

----------------------------------------------------------------------------
(* Properties of colliding ring points *)

\* the (bucket position, replica index) pairs whose replica string hashes to p
PairsAt(p) ==
    { pr \in (DOMAIN buckets) \X (0..(replicas - 1)) :
        sha[ReplicaInput(buckets[pr[1]], pr[2])] = p }

\* the pair of PairsAt(p) inserted last: buckets in input order, replica
\* indices ascending within a bucket
LastInserted(p) ==
    CHOOSE pr \in PairsAt(p) :
        \A o \in PairsAt(p) : o[1] < pr[1] \/ (o[1] = pr[1] /\ o[2] <= pr[2])

\* the ring point a hash resolves to: the first point at or after it, the
\* smallest point when there is none
PointOf(h) ==
    LET atOrAfter == { q \in Range(keys) : q >= h }
    IN  IF atOrAfter # {} THEN Min(atOrAfter) ELSE Min(Range(keys))

\* C21. Collision rule: construction with a positive replica count always
\* yields a ring; every ring point, shared by several (bucket, replica) pairs
\* or not, is mapped to the bucket of the pair inserted last, and every key
\* that resolves to the point was routed to that bucket.
CollisionRule ==
    (phase = "built" /\ replicas > 0) =>
        /\ \A n \in DOMAIN buckets : \A i \in 0..(replicas - 1) :
              sha[ReplicaInput(buckets[n], i)] \in Range(keys)
        /\ \A p \in Range(keys) :
              /\ PairsAt(p) # {}
              /\ hashMap[p] = buckets[LastInserted(p)[1]]
        /\ \A k \in DOMAIN routed :
              Len(keys) > 0 =>
                  routed[k].bucket = buckets[LastInserted(PointOf(routed[k].hash))[1]]

\* replicas of two different buckets collided on a point, the earlier
\* bucket's replica inserted first, and a key that resolves to that point was
\* routed to the later bucket
CollisionRuleWitness ==
    /\ phase = "built"
    /\ replicas > 0
    /\ \E p \in Range(keys) :
          /\ \E a \in PairsAt(p) : \E b \in PairsAt(p) :
                a[1] < b[1] /\ buckets[a[1]] # buckets[b[1]]
          /\ \E k \in DOMAIN routed :
                /\ routed[k].hash = p
                /\ routed[k].bucket = buckets[LastInserted(p)[1]]
                /\ routed[k].bucket # buckets[1]

----------------------------------------------------------------------------
(* Properties of the error paths of the single-object handlers *)

\* a backend call of the last request returned an error
BackendFailed == \E i \in DOMAIN last.calls : last.calls[i].err

\* the statuses that report success
SuccessStatuses == { 200, 204 }

----------------------------------------------------------------------------
(* Properties of the dispatch *)

\* the path has the form /b/k with a bucket name b and a non-empty key k
IsObjectPath(path) ==
    /\ Len(path) >= 4
    /\ path[1] = Slash
    /\ SlashPositions(Tail(path)) # {}
    /\ Min(SlashPositions(Tail(path))) > 1
    /\ Min(SlashPositions(Tail(path))) < Len(Tail(path))

\* the object key k of a path /b/k
KeyOfPath(path) == SubSeq(Tail(path), Min(SlashPositions(Tail(path))) + 1, Len(Tail(path)))

\* the two requests differ in their paths only
SameButPath(r1, r2) == [r1 EXCEPT !.path = r2.path] = r2

\* C23. Trailing-slash normalisation: two requests that differ only in that
\* the path of one is /b/k and the path of the other /b/k/ were given to the
\* same handler with the same bucket name and the same object key, hence the
\* same routing key.
TrailingSlashNormalisation ==
    \A i \in DOMAIN dispatched : \A j \in DOMAIN dispatched :
        (/\ IsObjectPath(dispatched[i].request.path)
         /\ dispatched[j].request.path = dispatched[i].request.path \o <<Slash>>
         /\ SameButPath(dispatched[i].request, dispatched[j].request))
        => /\ dispatched[j].handler = dispatched[i].handler
           /\ dispatched[j].bucketName = dispatched[i].bucketName
           /\ dispatched[j].objectKey = dispatched[i].objectKey
           /\ extractHashKey(dispatched[j].objectKey) = extractHashKey(dispatched[i].objectKey)

\* C25. Tagging dispatch: a GET or PUT on an object path whose query names
\* the tagging parameter, with a value or without one, was given to
\* handleGetObjectTagging or handlePutObjectTagging, never to handleGetObject
\* or handlePutObject.
TaggingDispatch ==
    \A i \in DOMAIN dispatched :
        (IsObjectPath(dispatched[i].request.path) /\ dispatched[i].request.hasTagging) =>
            /\ dispatched[i].request.method = "GET" =>
                  dispatched[i].handler = "handleGetObjectTagging"
            /\ dispatched[i].request.method = "PUT" =>
                  dispatched[i].handler = "handlePutObjectTagging"

\* C26. Total request dispatch: every request was given to a handler or
\* answered with an error status; a PUT, DELETE or HEAD on a path of fewer
\* than two segments, for which handleRequest calls no handler, was answered
\* with an error status, and a method other than GET, PUT, DELETE and HEAD
\* with 405.
TotalDispatch ==
    /\ last.op = "no-handler" => last.status >= 400
    /\ last.op = "method-not-allowed" => last.status = 405

----------------------------------------------------------------------------
(* Properties of a listing after uploads and deletes *)

\* every bucket of the configuration exists and no listing of the request
\* reported an error
AllHealthy ==
    /\ Range(buckets) \subseteq existing
    /\ \A i \in DOMAIN yielded : \A n \in DOMAIN yielded[i].items : ~yielded[i].items[n].err

\* the number of entries of a response that carry key k
Occurrences(contents, k) == Cardinality({ i \in DOMAIN contents : contents[i].key = k })

\* the response being written has each stored key once and nothing else
EachStoredKeyOnce ==
    \A k \in ListKeys \cup { listResp'.contents[i].key : i \in DOMAIN listResp'.contents } :
        Occurrences(listResp'.contents, k) = IF Holders(k) # {} THEN 1 ELSE 0

\* the step on which a list request with an empty prefix is answered, every
\* bucket healthy
AnswersEmptyPrefix ==
    /\ listPc = "loop"
    /\ listPc' = "done"
    /\ ValidConfiguration
    /\ AllHealthy
    /\ listReq.prefix = EmptyString

\* C24 as stated: exactly-once listing for every valid configuration and
\* every list request with an empty prefix.
ExactlyOnceListingAlways == [][AnswersEmptyPrefix => EachStoredKeyOnce]_vars

\* C24. Exactly-once listing: under a configuration that names each bucket
\* once, all buckets healthy and initially empty, after any sequence of
\* uploads and deletes a list request with an empty prefix and no delimiter
\* is answered with each stored key exactly once.
ExactlyOnceListing ==
    [][(AnswersEmptyPrefix /\ DuplicateFree(buckets) /\ listReq.delimiter = EmptyString)
        => EachStoredKeyOnce]_vars

\* a flat list request was answered with the two keys stored in two
\* different buckets, after an upload or a delete
ExactlyOnceListingWitness ==
    /\ listPc = "done"
    /\ AllHealthy
    /\ DuplicateFree(buckets)
    /\ listReq.prefix = EmptyString
    /\ listReq.delimiter = EmptyString
    /\ last.op \in { "put", "delete" }
    /\ Cardinality({ o[1] : o \in store }) = 2
    /\ Len(listResp.contents) = 2
    /\ \A o \in store : Occurrences(listResp.contents, o[2]) = 1

----------------------------------------------------------------------------
(* Properties of the replica strings *)

\* C27. Distinct replica inputs: the strings hashed for replicas of two
\* different buckets are different strings, whatever the replica indices.
DistinctReplicaInputs ==
    \A i \in DOMAIN hashInput : \A j \in DOMAIN hashInput :
        hashInput[i].bucket # hashInput[j].bucket => hashInput[i].input # hashInput[j].input

----------------------------------------------------------------------------
(* Properties of the counters *)

\* by how much a step increments a counter
Increment(labels) == counterValue(metrics', labels) - counterValue(metrics, labels)

\* the listing that the step completes reported an error
ListingFailed ==
    \E n \in DOMAIN yielded'[Len(yielded')].items : yielded'[Len(yielded')].items[n].err

\* C28. List outcome accounting: every iteration of the fan-out loop of the
\* instrumented list handler increments exactly one of the "success" and
\* "error" counters of its bucket, by one: "error" when the listing reported
\* an error, "success" when it did not.
ListOutcomeAccounting ==
    [][(listPc = "loop" /\ listIdx' = listIdx + 1) =>
         LET realBucket == getAllBuckets[listIdx]
             success == Increment(S3OperationsTotal("list", realBucket, "success"))
             error == Increment(S3OperationsTotal("list", realBucket, "error"))
         IN  /\ success + error = 1
             /\ error = IF ListingFailed THEN 1 ELSE 0]_vars

====
